---- MODULE Spec2Model ----
(***************************************************************************)
(* Model of the planner front end: the Dashboard page (task list,          *)
(* completed-id list, timeline, regenerate), its local fallback scheduler  *)
(* generateLocalSchedule / formatTime, and the TaskInput page's task list. *)
(* The way between the pages is modelled too: GoalSetup's reset of the     *)
(* backend's tasks (clearOldTasks) and TaskInput's 'Generate AI Schedule'. *)
(*                                                                         *)
(* React semantics used throughout: a handler reads the state of the       *)
(* render it was created in; every setX after an `await` still uses the    *)
(* values captured when the handler was called.  A request in flight       *)
(* therefore carries the captured values it will use when it completes.    *)
(*                                                                         *)
(* Times.  The code keeps times as a floating-point number of hours.  The  *)
(* model keeps the same quantity as a whole number of minutes (hours*60);  *)
(* the task-duration slider only produces multiples of 15 minutes, i.e.    *)
(* multiples of 0.25 h, for which the floating-point sums are exact.       *)
(* A clock label "h:mm AM" is the record [hour, minute, period].           *)
(***************************************************************************)
EXTENDS Integers, Sequences, FiniteSets, TLC

VARIABLES
    tasks,           \* Dashboard: useState tasks
    schedule,        \* Dashboard: useState schedule (the timeline)
    completedTasks,  \* Dashboard: useState completedTasks (ids)
    isRegenerating,  \* Dashboard: useState isRegenerating
    wellnessTips,    \* Dashboard: useState wellnessTips
    mounted,         \* Dashboard is the current page (FALSE after navigate('/tasks'))
    fetchPending,    \* fetchData's Promise.all is in flight
    regen,           \* regenerateSchedule in flight: <<the tasks it captured>>, or <<>>
    toggles,         \* toggleTask calls in flight: <<[id, newStatus, phase]>>
    deletes,         \* deleteTask requests in flight (set of ids)
    checkinCalls,    \* number of api.checkinStreak calls issued
    deleted,         \* history: ids passed to Dashboard deleteTask
    srvTasks,        \* backend: the task table
    userId,          \* localStorage 'userId' present
    lsUserTasks,     \* localStorage 'userTasks': <<the task list>>, or <<>> when absent
    lsWellnessTips,  \* localStorage 'wellnessTips': <<the tips>>, or <<>> when absent
    inputTasks,      \* TaskInput: useState tasks
    isLoading,       \* TaskInput: useState isLoading
    addReq,          \* TaskInput addTask in flight: <<[tasks, draft]>>, or <<>>
    removeReqs,      \* TaskInput removeTask calls in flight: set of [id, tasks]
    nextId,          \* backend: next id handed out by createTask
    clock,           \* Date.now(), counted in ticks
    removed,         \* history: ids whose removeTask has completed
    addOverlapped,   \* history: a removeTask was in flight during the addTask in flight
    addOutcome,      \* history: what the last addTask call did ("none" before any)
    uncaught,        \* handlers whose promise rejected with an error nobody caught
    page,            \* the route shown: "goals", "tasks" or "dashboard"
    reset,           \* GoalSetup clearOldTasks: [phase, queue, before, deleted]
    genReq           \* TaskInput generateSchedule: <<[tasks, settled]>>, or <<>> before the press

vars == <<tasks, schedule, completedTasks, isRegenerating, wellnessTips, mounted,
          fetchPending, regen, toggles, deletes, checkinCalls, deleted,
          srvTasks, userId, lsUserTasks, lsWellnessTips,
          inputTasks, isLoading, addReq, removeReqs, nextId, clock, removed,
          addOverlapped, addOutcome, uncaught, page, reset, genReq>>

dashVars == <<tasks, schedule, completedTasks, isRegenerating, wellnessTips, mounted,
              fetchPending, regen, toggles, deletes, checkinCalls, deleted,
              userId, lsUserTasks, lsWellnessTips, uncaught>>

inputVars == <<inputTasks, isLoading, addReq, removeReqs, nextId, clock, removed,
               addOverlapped, addOutcome>>

flowVars == <<page, reset, genReq>>

\* a field a record does not have (undefined)
None == "none"

\* an absent value, and a present one
Absent == <<>>

Some(x) == <<x>>

-----------------------------------------------------------------------------
(* Bounds of the model *)

\* longest task list handed to the Local Scheduler on its own
MaxLen == 4
\* most tasks on the backend when the Dashboard loads
MaxTasks == 2
\* most entries in a remote schedule
MaxRemote == 2
\* most toggleTask and deleteTask requests in flight at once
MaxInflight == 1
\* most streak check-in calls issued in one run
MaxCheckins == 2
\* most tasks created on the TaskInput page in one run
MaxAdds == 3
\* most removeTask calls in flight at once
MaxRemoves == 2
\* largest task count for which the percentage arithmetic is checked on its own
MaxCount == 8
\* most toggleTask calls in flight at once when toggles overlap
MaxToggles == 2

-----------------------------------------------------------------------------
(* Helpers on sequences *)

Range(s) == {s[i] : i \in DOMAIN s}

RECURSIVE SelectSeqBy(_, _)
\* Array.prototype.filter with the predicate given as a set of kept elements
SelectSeqBy(s, keep) ==
    IF s = <<>> THEN <<>>
    ELSE IF Head(s) \in keep THEN <<Head(s)>> \o SelectSeqBy(Tail(s), keep)
         ELSE SelectSeqBy(Tail(s), keep)

Ids(s) == {s[i].id : i \in DOMAIN s}

Injective(s) == \A i, j \in DOMAIN s : s[i] = s[j] => i = j

-----------------------------------------------------------------------------
(* Clock labels *)

Label(h, m, p) == [hour |-> h, minute |-> m, period |-> p]

\* formatTime(hours), with hours given as minutes (hours * 60)
formatTime(mins) ==
    LET h == mins \div 60
        m == mins % 60
        period == IF h >= 12 THEN "PM" ELSE "AM"
        displayHour == IF h > 12 THEN h - 12 ELSE IF h = 0 THEN 12 ELSE h
    IN  Label(displayHour, m, period)

\* formatTimeFromHHMM("HH:MM"), the string given as [hh, mm]
formatTimeFromHHMM(time) ==
    LET hours == time.hh
        minutes == time.mm
        period == IF hours >= 12 THEN "PM" ELSE "AM"
        displayHour == IF hours > 12 THEN hours - 12 ELSE IF hours = 0 THEN 12 ELSE hours
    IN  Label(displayHour, minutes, period)

-----------------------------------------------------------------------------
(* The Local Scheduler *)

startHour == 9

DefaultDuration == 60

priorityOrder(p) == CASE p = "high" -> 3 [] p = "medium" -> 2 [] p = "low" -> 1

\* the comparator of the sort: negative when a goes before b
compare(a, b) == priorityOrder(b.priority) - priorityOrder(a.priority)

RECURSIVE InsertUnstable(_, _)
InsertUnstable(t, s) ==
    IF s = <<>> THEN <<t>>
    ELSE IF compare(t, Head(s)) <= 0 THEN <<t>> \o s
         ELSE <<Head(s)>> \o InsertUnstable(t, Tail(s))

RECURSIVE InsertSorted(_, _)
\* t goes after every element it does not strictly precede (stable insertion)
InsertSorted(t, s) ==
    IF s = <<>> THEN <<t>>
    ELSE IF compare(t, Head(s)) < 0 THEN <<t>> \o s
         ELSE <<Head(s)>> \o InsertSorted(t, Tail(s))

RECURSIVE SortFrom(_, _)
SortFrom(done, rest) ==
    IF rest = <<>> THEN done
    ELSE SortFrom(InsertSorted(Head(rest), done), Tail(rest))

\* taskList.sort(comparator): Array.prototype.sort is stable
sortByPriority(taskList) == SortFrom(<<>>, taskList)

DurationAsGiven(task) == task.duration

\* (task.duration?.[0] || 60), in minutes; a missing duration is written 0
durationMinutes(task) == IF task.duration = 0 THEN DefaultDuration ELSE task.duration

Block(task, startMins, endMins) ==
    [id |-> task.id, title |-> task.title, priority |-> task.priority,
     duration |-> task.duration, status |-> task.status, completed |-> task.completed,
     startTime |-> formatTime(startMins), endTime |-> formatTime(endMins)]

RECURSIVE PlaceTimed(_, _)
PlaceTimed(sorted, currentTime) ==
    IF sorted = <<>> THEN <<>>
    ELSE LET startTime == currentTime
             next == currentTime + durationMinutes(Head(sorted))
         IN  (IF Head(sorted).duration = 0 THEN <<>>
              ELSE <<Block(Head(sorted), startTime, next)>>)
             \o PlaceTimed(Tail(sorted), next)

RECURSIVE Place(_, _)
\* the .map callback with its running currentTime
Place(sorted, currentTime) ==
    IF sorted = <<>> THEN <<>>
    ELSE LET startTime == currentTime
             next == currentTime + durationMinutes(Head(sorted))
         IN  <<Block(Head(sorted), startTime, next)>> \o Place(Tail(sorted), next)

\* the value generateLocalSchedule passes to setSchedule
generateLocalSchedule(taskList) == Place(sortByPriority(taskList), startHour * 60)

-----------------------------------------------------------------------------
(* Values the environment supplies *)

Priorities == {"high", "medium", "low"}

\* durations of the tasks given to the Local Scheduler on its own, in minutes:
\* slider values (15..240 in steps of 15) and 0 for a missing duration
SchedDurations == {0, 30, 60, 240}

Task(i, p, d, st) ==
    [id |-> i, title |-> i, priority |-> p, duration |-> d, status |-> st,
     completed |-> (st = "completed")]

\* task lists of length n whose ids are their input positions
TaskLists(n, durs, stats) ==
    {[i \in 1..n |-> Task(i, f[i][1], f[i][2], f[i][3])] :
        f \in [1..n -> Priorities \X durs \X stats]}

\* the state of the parts a specification does not exercise
DashboardIdle ==
    /\ completedTasks = <<>>
    /\ isRegenerating = FALSE /\ wellnessTips = <<>> /\ mounted = FALSE
    /\ fetchPending = FALSE /\ regen = Absent /\ toggles = <<>> /\ deletes = {}
    /\ checkinCalls = 0 /\ deleted = {} /\ userId = FALSE
    /\ lsUserTasks = Absent /\ lsWellnessTips = Absent
    /\ uncaught = {}

InputIdle ==
    /\ inputTasks = <<>> /\ isLoading = FALSE /\ addReq = Absent /\ removeReqs = {}
    /\ nextId = 1 /\ clock = 0 /\ removed = {}
    /\ addOverlapped = FALSE /\ addOutcome = "none"

\* no reset is running (GoalSetup is not part of the run)
ResetNone == [phase |-> "none", queue |-> <<>>, before |-> {}, deleted |-> {}]

\* the user is on route p, with no reset running and Generate not pressed
FlowIdle(p) == page = p /\ reset = ResetNone /\ genReq = Absent

-----------------------------------------------------------------------------
(* The backend, as the pages see it *)

\* durations on the backend are hours; the model writes them in quarter hours.
\* The task with backend id i lasts 30 minutes when i is odd, 60 when it is even.
SrvDuration(i) == IF i % 2 = 1 THEN 2 ELSE 4

SrvTask(i, p, q, st) ==
    [id |-> i, title |-> i, priority |-> p, duration |-> q, status |-> st]

\* priorities of the tasks on the backend when the Dashboard loads
SrvPriorities == {"high", "low"}

\* backend task tables of length n; ids are handed out in order
SrvLists(n) ==
    {[i \in 1..n |-> SrvTask(i, f[i][1], SrvDuration(i), f[i][2])] :
        f \in [1..n -> SrvPriorities \X {"pending", "completed"}]}

InjectiveSeqs(S, n) == {q \in [1..n -> S] : Injective(q)}

\* the orders in which a remote schedule may list (some of) the backend's tasks
RemoteOrders(srv) ==
    UNION {InjectiveSeqs(Ids(srv), n) : n \in 0..MaxRemote}

\* start hours the remote scheduler may choose for its first entry
RemoteBaseHours == {11}

HHMM(h, m) == [hh |-> h, mm |-> m]

\* GET /schedule: rows with id, task_title, start_time, end_time; a row carries
\* the id of its task (the reading under which deleteTask's filter on the block
\* id can match a loaded block)
GetScheduleResponses(srv) ==
    {[k \in DOMAIN order |->
        [id |-> order[k],
         task_title |-> order[k],
         start_time |-> HHMM(base + k - 1, 0),
         end_time |-> HHMM(base + k, 0)]] :
      order \in RemoteOrders(srv), base \in RemoteBaseHours}

\* POST /generate-schedule: result.schedule rows with task, start, end
GenerateResponses(srv) ==
    {[k \in DOMAIN order |->
        [task |-> order[k],
         start |-> HHMM(base + k - 1, 0),
         end |-> HHMM(base + k, 0)]] :
      order \in RemoteOrders(srv), base \in RemoteBaseHours}

\* result.review
Reviews == {<<>>, <<"tip">>}

\* PATCH /tasks/{id} {status}
SrvSetStatus(srv, id, st) ==
    [i \in DOMAIN srv |-> IF srv[i].id = id THEN [srv[i] EXCEPT !.status = st] ELSE srv[i]]

\* DELETE /tasks/{id}
SrvDelete(srv, id) == SelectSeqBy(srv, {t \in Range(srv) : t.id # id})

-----------------------------------------------------------------------------
(* Dashboard: pure parts of the handlers *)

\* tasksData.map(t => ({...t, duration: [Math.round(t.duration * 60)],
\*                      completed: t.status === 'completed'}))
transformTask(t) ==
    [id |-> t.id, title |-> t.title, priority |-> t.priority,
     duration |-> t.duration * 15, status |-> t.status,
     completed |-> (t.status = "completed")]

transformTasks(tasksData) == [i \in DOMAIN tasksData |-> transformTask(tasksData[i])]

AllIds(ts) == [i \in DOMAIN ts |-> ts[i].id]

\* transformedTasks.filter(t => t.completed).map(t => t.id)
completedIds(ts) ==
    LET done == SelectSeqBy(ts, {t \in Range(ts) : t.completed})
    IN  [i \in DOMAIN done |-> done[i].id]

\* a block built from a remote row: {id, title, startTime, endTime, duration: [60]}
RemoteBlock(i, ttl, st, en) ==
    [id |-> i, title |-> ttl, priority |-> None, duration |-> 60, status |-> None,
     completed |-> FALSE, startTime |-> st, endTime |-> en]

\* scheduleData.map(s => ({id: s.id, title: s.task_title, ...}))
transformSchedule(scheduleData) ==
    [k \in DOMAIN scheduleData |->
        RemoteBlock(scheduleData[k].id, scheduleData[k].task_title,
                    formatTimeFromHHMM(scheduleData[k].start_time),
                    formatTimeFromHHMM(scheduleData[k].end_time))]

\* result.schedule.map((s, index) => ({id: index, title: s.task, ...}))
transformGenerated(rows) ==
    [k \in DOMAIN rows |->
        RemoteBlock(k - 1, rows[k].task,
                    formatTimeFromHHMM(rows[k].start), formatTimeFromHHMM(rows[k].end))]

BlendedSchedule(transformedTasks, scheduleData, old) ==
    IF Len(scheduleData) > 0
    THEN transformSchedule(scheduleData) \o generateLocalSchedule(transformedTasks)
    ELSE IF Len(transformedTasks) > 0 THEN generateLocalSchedule(transformedTasks)
    ELSE old

\* the timeline fetchData leaves: the remote schedule when it has an entry,
\* else the local schedule of all the loaded tasks, else what was there
loadedSchedule(transformedTasks, scheduleData, old) ==
    IF Len(scheduleData) > 0 THEN transformSchedule(scheduleData)
    ELSE IF Len(transformedTasks) > 0 THEN generateLocalSchedule(transformedTasks)
    ELSE old

\* the tasks array after fetchData: generateLocalSchedule sorts the very array
\* that was given to setTasks
loadedTasks(transformedTasks, scheduleData) ==
    IF Len(scheduleData) = 0 /\ Len(transformedTasks) > 0
    THEN sortByPriority(transformedTasks)
    ELSE transformedTasks

\* tasks.find(t => t.id === taskId)
Find(ts, taskId) == ts[CHOOSE i \in DOMAIN ts :
                          /\ ts[i].id = taskId
                          /\ \A j \in DOMAIN ts : ts[j].id = taskId => i <= j]

\* tasks.map(t => t.id === taskId ? {...t, completed: !t.completed} : t)
toggledTasks(ts, taskId) ==
    [i \in DOMAIN ts |->
        IF ts[i].id = taskId THEN [ts[i] EXCEPT !.completed = ~ts[i].completed] ELSE ts[i]]

KeepsIds(ids, taskId) == ids

\* completedTasks.filter(id => id !== taskId)
WithoutId(ids, taskId) == SelectSeqBy(ids, Range(ids) \ {taskId})

AlwaysAppended(ids, taskId) == Append(ids, taskId)

\* the completed-id list after toggleTask
toggledCompleted(ids, taskId) ==
    IF taskId \notin Range(ids) THEN Append(ids, taskId) ELSE WithoutId(ids, taskId)

ChecksInAlways(ids, taskId, uid) == uid

\* toggleTask calls api.checkinStreak: the id was not in completedTasks and
\* localStorage has a userId
checksIn(ids, taskId, uid) == taskId \notin Range(ids) /\ uid

\* Math.round(x) for x = num / den >= 0: floor(x + 0.5)
MathRound(num, den) == (2 * num + den) \div (2 * den)

\* const completionPercentage = tasks.length > 0 ? Math.round(...) : 0
completionPercentage ==
    IF Len(tasks) > 0 THEN MathRound(Len(completedTasks) * 100, Len(tasks)) ELSE 0

\* tasks saved by the TaskInput page, as JSON.parse gives them back
StoredTask(t) ==
    [id |-> t.id, title |-> t.title, priority |-> t.priority,
     duration |-> t.duration * 15, status |-> "pending", completed |-> FALSE]

-----------------------------------------------------------------------------
(* Specification Spec: the Dashboard page against the backend *)

Init ==
    /\ InputIdle /\ FlowIdle("dashboard")
    /\ tasks = <<>> /\ schedule = <<>> /\ completedTasks = <<>>
    /\ isRegenerating = FALSE /\ wellnessTips = <<>> /\ mounted = TRUE
    /\ fetchPending = TRUE /\ regen = Absent /\ toggles = <<>> /\ deletes = {}
    /\ checkinCalls = 0 /\ deleted = {} /\ uncaught = {}
    /\ \E n \in 0..MaxTasks : srvTasks \in SrvLists(n)
    /\ userId \in BOOLEAN
    /\ lsUserTasks = IF srvTasks = <<>> THEN Absent
                     ELSE Some([i \in DOMAIN srvTasks |-> StoredTask(srvTasks[i])])
    /\ lsWellnessTips = Absent

\* fetchData, try branch: Promise.all([getTasks(), getSchedule()]) resolved
FetchDataOk(scheduleData) ==
    /\ mounted /\ fetchPending
    /\ LET transformedTasks == transformTasks(srvTasks)
       IN  /\ tasks' = loadedTasks(transformedTasks, scheduleData)
           /\ completedTasks' = completedIds(transformedTasks)
           /\ schedule' = loadedSchedule(transformedTasks, scheduleData, schedule)
    /\ wellnessTips' = IF lsWellnessTips # Absent THEN lsWellnessTips[1] ELSE wellnessTips
    /\ fetchPending' = FALSE
    /\ UNCHANGED <<isRegenerating, mounted, regen, toggles, deletes, checkinCalls,
                   deleted, srvTasks, userId, lsUserTasks, lsWellnessTips>>
    /\ UNCHANGED inputVars /\ UNCHANGED flowVars /\ UNCHANGED uncaught

\* fetchData, catch branch: the tasks saved in localStorage, or back to /tasks
FetchDataFail ==
    /\ mounted /\ fetchPending
    /\ IF lsUserTasks # Absent
       THEN LET parsedTasks == lsUserTasks[1]
            IN  /\ tasks' = [i \in DOMAIN parsedTasks |->
                               [parsedTasks[i] EXCEPT !.completed = FALSE]]
                /\ schedule' = generateLocalSchedule(parsedTasks)
                /\ mounted' = mounted
                /\ page' = page
       ELSE /\ mounted' = FALSE
            /\ page' = "tasks"
            /\ UNCHANGED <<tasks, schedule>>
    /\ fetchPending' = FALSE
    /\ UNCHANGED <<completedTasks, isRegenerating, wellnessTips, regen, toggles, deletes,
                   checkinCalls, deleted, srvTasks, userId, lsUserTasks, lsWellnessTips>>
    /\ UNCHANGED inputVars /\ UNCHANGED <<reset, genReq>> /\ UNCHANGED uncaught

toggleTaskDropsBlock(taskId) ==
    /\ mounted
    /\ taskId \in Ids(tasks)
    /\ checksIn(completedTasks, taskId, userId) => checkinCalls < MaxCheckins
    /\ LET task == Find(tasks, taskId)
           newStatus == IF task.completed THEN "pending" ELSE "completed"
           checkin == checksIn(completedTasks, taskId, userId)
       IN  /\ tasks' = toggledTasks(tasks, taskId)
           /\ completedTasks' = toggledCompleted(completedTasks, taskId)
           /\ checkinCalls' = IF checkin THEN checkinCalls + 1 ELSE checkinCalls
           /\ toggles' = Append(toggles,
                                [id |-> taskId, newStatus |-> newStatus,
                                 phase |-> IF checkin THEN "checkin" ELSE "update"])
           /\ schedule' = IF task.completed THEN schedule
                          ELSE SelectSeqBy(schedule, {b \in Range(schedule) : b.id # taskId})
    /\ UNCHANGED <<isRegenerating, wellnessTips, mounted, fetchPending, regen,
                   deletes, deleted, srvTasks, userId, lsUserTasks, lsWellnessTips>>
    /\ UNCHANGED inputVars /\ UNCHANGED flowVars /\ UNCHANGED uncaught

\* toggleTask(taskId) up to its first await.  tasks.find gives undefined for an
\* id no task has, and reading task.completed then throws a TypeError before
\* any setX: the async handler's promise rejects and nothing catches it.
toggleTask(taskId) ==
    /\ mounted
    /\ IF taskId \notin Ids(tasks)
       THEN /\ uncaught' = uncaught \cup {"toggleTask"}
            /\ UNCHANGED <<tasks, completedTasks, checkinCalls, toggles>>
       ELSE /\ checksIn(completedTasks, taskId, userId) => checkinCalls < MaxCheckins
            /\ LET task == Find(tasks, taskId)
                   newStatus == IF task.completed THEN "pending" ELSE "completed"
                   checkin == checksIn(completedTasks, taskId, userId)
               IN  /\ tasks' = toggledTasks(tasks, taskId)
                   /\ completedTasks' = toggledCompleted(completedTasks, taskId)
                   /\ checkinCalls' = IF checkin THEN checkinCalls + 1 ELSE checkinCalls
                   /\ toggles' = Append(toggles,
                                        [id |-> taskId, newStatus |-> newStatus,
                                         phase |-> IF checkin THEN "checkin" ELSE "update"])
            /\ UNCHANGED uncaught
    /\ UNCHANGED <<schedule, isRegenerating, wellnessTips, mounted, fetchPending, regen,
                   deletes, deleted, srvTasks, userId, lsUserTasks, lsWellnessTips>>
    /\ UNCHANGED inputVars /\ UNCHANGED flowVars

CheckinAborts(i, ok) ==
    /\ i \in DOMAIN toggles
    /\ toggles[i].phase = "checkin"
    /\ IF ok THEN /\ toggles' = [toggles EXCEPT ![i].phase = "update"]
                  /\ UNCHANGED uncaught
       ELSE /\ toggles' = [k \in 1..(Len(toggles) - 1) |->
                              IF k < i THEN toggles[k] ELSE toggles[k + 1]]
            /\ uncaught' = uncaught \cup {"toggleTask"}
    /\ UNCHANGED <<tasks, schedule, completedTasks, isRegenerating, wellnessTips, mounted,
                   fetchPending, regen, deletes, checkinCalls, deleted, srvTasks, userId,
                   lsUserTasks, lsWellnessTips>>
    /\ UNCHANGED inputVars /\ UNCHANGED flowVars

\* api.checkinStreak settled (ok: resolved; else rejected, caught and logged):
\* either way toggleTask goes on to api.updateTaskStatus
CheckinSettled(i, ok) ==
    /\ i \in DOMAIN toggles
    /\ toggles[i].phase = "checkin"
    /\ toggles' = [toggles EXCEPT ![i].phase = "update"]
    /\ UNCHANGED <<tasks, schedule, completedTasks, isRegenerating, wellnessTips, mounted,
                   fetchPending, regen, deletes, checkinCalls, deleted, srvTasks, userId,
                   lsUserTasks, lsWellnessTips>>
    /\ UNCHANGED inputVars /\ UNCHANGED flowVars /\ UNCHANGED uncaught

RemoveAt(q, i) == [k \in 1..(Len(q) - 1) |-> IF k < i THEN q[k] ELSE q[k + 1]]

\* api.updateTaskStatus(taskId, newStatus) settled; ok: the backend applied it
UpdateStatusSettled(i, ok) ==
    /\ i \in DOMAIN toggles
    /\ toggles[i].phase = "update"
    /\ srvTasks' = IF ok THEN SrvSetStatus(srvTasks, toggles[i].id, toggles[i].newStatus)
                   ELSE srvTasks
    /\ toggles' = RemoveAt(toggles, i)
    /\ UNCHANGED <<tasks, schedule, completedTasks, isRegenerating, wellnessTips, mounted,
                   fetchPending, regen, deletes, checkinCalls, deleted, userId,
                   lsUserTasks, lsWellnessTips>>
    /\ UNCHANGED inputVars /\ UNCHANGED flowVars /\ UNCHANGED uncaught

\* deleteTask(taskId) up to its await
deleteTask(taskId) ==
    /\ mounted
    /\ tasks' = SelectSeqBy(tasks, {t \in Range(tasks) : t.id # taskId})
    /\ completedTasks' = WithoutId(completedTasks, taskId)
    /\ schedule' = SelectSeqBy(schedule, {b \in Range(schedule) : b.id # taskId})
    /\ deletes' = deletes \cup {taskId}
    /\ deleted' = deleted \cup {taskId}
    /\ UNCHANGED <<isRegenerating, wellnessTips, mounted, fetchPending, regen, toggles,
                   checkinCalls, srvTasks, userId, lsUserTasks, lsWellnessTips>>
    /\ UNCHANGED inputVars /\ UNCHANGED flowVars /\ UNCHANGED uncaught

\* api.deleteTask(taskId) settled; ok: the backend removed the task
DeleteSettled(taskId, ok) ==
    /\ taskId \in deletes
    /\ srvTasks' = IF ok THEN SrvDelete(srvTasks, taskId) ELSE srvTasks
    /\ deletes' = deletes \ {taskId}
    /\ UNCHANGED <<tasks, schedule, completedTasks, isRegenerating, wellnessTips, mounted,
                   fetchPending, regen, toggles, checkinCalls, deleted, userId,
                   lsUserTasks, lsWellnessTips>>
    /\ UNCHANGED inputVars /\ UNCHANGED flowVars /\ UNCHANGED uncaught

\* regenerateSchedule up to its await (the button is disabled while isRegenerating)
regenerateSchedule ==
    /\ mounted
    /\ ~isRegenerating
    /\ regen = Absent
    /\ isRegenerating' = TRUE
    /\ regen' = Some(tasks)
    /\ UNCHANGED <<tasks, schedule, completedTasks, wellnessTips, mounted, fetchPending,
                   toggles, deletes, checkinCalls, deleted, srvTasks, userId,
                   lsUserTasks, lsWellnessTips>>
    /\ UNCHANGED inputVars /\ UNCHANGED flowVars /\ UNCHANGED uncaught

RegenerateOkTipsAlways(rows, review) ==
    /\ mounted
    /\ regen # Absent
    /\ IF Len(rows) > 0 THEN schedule' = transformGenerated(rows) ELSE UNCHANGED schedule
    /\ IF Len(review) > 0
       THEN wellnessTips' = review /\ lsWellnessTips' = Some(review)
       ELSE UNCHANGED <<wellnessTips, lsWellnessTips>>
    /\ isRegenerating' = FALSE
    /\ regen' = Absent
    /\ UNCHANGED <<tasks, completedTasks, mounted, fetchPending, toggles, deletes,
                   checkinCalls, deleted, srvTasks, userId, lsUserTasks>>
    /\ UNCHANGED inputVars /\ UNCHANGED flowVars /\ UNCHANGED uncaught

\* regenerateSchedule, api.generateSchedule() resolved with result
RegenerateOk(rows, review) ==
    /\ mounted
    /\ regen # Absent
    /\ IF Len(rows) > 0
       THEN /\ schedule' = transformGenerated(rows)
            /\ IF Len(review) > 0
               THEN wellnessTips' = review /\ lsWellnessTips' = Some(review)
               ELSE UNCHANGED <<wellnessTips, lsWellnessTips>>
       ELSE UNCHANGED <<schedule, wellnessTips, lsWellnessTips>>
    /\ isRegenerating' = FALSE
    /\ regen' = Absent
    /\ UNCHANGED <<tasks, completedTasks, mounted, fetchPending, toggles, deletes,
                   checkinCalls, deleted, srvTasks, userId, lsUserTasks>>
    /\ UNCHANGED inputVars /\ UNCHANGED flowVars /\ UNCHANGED uncaught

\* const incompleteTasks = tasks.filter(t => !t.completed), over the tasks the
\* handler captured when it was called
incompleteTasks(captured, current) ==
    SelectSeqBy(captured, {t \in Range(captured) : ~t.completed})

RegenerateFailKeepsLoading ==
    /\ mounted
    /\ regen # Absent
    /\ schedule' = generateLocalSchedule(incompleteTasks(regen[1], tasks))
    /\ regen' = Absent
    /\ UNCHANGED <<tasks, completedTasks, isRegenerating, wellnessTips, mounted, fetchPending,
                   toggles, deletes, checkinCalls, deleted, srvTasks, userId, lsUserTasks,
                   lsWellnessTips>>
    /\ UNCHANGED inputVars /\ UNCHANGED flowVars /\ UNCHANGED uncaught

\* regenerateSchedule, api.generateSchedule() rejected: the local fallback; the
\* finally clause then clears isRegenerating
RegenerateFail ==
    /\ mounted
    /\ regen # Absent
    /\ schedule' = generateLocalSchedule(incompleteTasks(regen[1], tasks))
    /\ isRegenerating' = FALSE
    /\ regen' = Absent
    /\ UNCHANGED <<tasks, completedTasks, wellnessTips, mounted, fetchPending, toggles,
                   deletes, checkinCalls, deleted, srvTasks, userId, lsUserTasks,
                   lsWellnessTips>>
    /\ UNCHANGED inputVars /\ UNCHANGED flowVars /\ UNCHANGED uncaught

\* toggleTask and deleteTask requests in flight
InFlight == Len(toggles) + Cardinality(deletes)

\* the page calls toggleTask and deleteTask with the id of a listed task
Next ==
    \/ \E scheduleData \in GetScheduleResponses(srvTasks) : FetchDataOk(scheduleData)
    \/ FetchDataFail
    \/ \E taskId \in Ids(tasks) : InFlight < MaxInflight /\ toggleTask(taskId)
    \/ \E i \in DOMAIN toggles, ok \in BOOLEAN : CheckinSettled(i, ok)
    \/ \E i \in DOMAIN toggles, ok \in BOOLEAN : UpdateStatusSettled(i, ok)
    \/ \E taskId \in Ids(tasks) : InFlight < MaxInflight /\ deleteTask(taskId)
    \/ \E taskId \in deletes, ok \in BOOLEAN : DeleteSettled(taskId, ok)
    \/ regenerateSchedule
    \/ \E rows \in GenerateResponses(srvTasks), review \in Reviews : RegenerateOk(rows, review)
    \/ RegenerateFail

Spec == Init /\ [][Next]_vars

-----------------------------------------------------------------------------
(* Specification SpecCalls: toggleTask and deleteTask as operations on any id *)

\* ids a caller may pass: those the backend's tasks can have, and one more
CallIds == 1..(MaxTasks + 1)

NextCalls ==
    \/ \E scheduleData \in GetScheduleResponses(srvTasks) : FetchDataOk(scheduleData)
    \/ FetchDataFail
    \/ \E taskId \in CallIds :
          (taskId \in Ids(tasks) => InFlight < MaxInflight) /\ toggleTask(taskId)
    \/ \E i \in DOMAIN toggles, ok \in BOOLEAN : CheckinSettled(i, ok)
    \/ \E i \in DOMAIN toggles, ok \in BOOLEAN : UpdateStatusSettled(i, ok)
    \/ \E taskId \in CallIds : InFlight < MaxInflight /\ deleteTask(taskId)
    \/ \E taskId \in deletes, ok \in BOOLEAN : DeleteSettled(taskId, ok)

SpecCalls == Init /\ [][NextCalls]_vars

C12_ToggleUnknownIdKeepsState ==
    [][\A taskId \in CallIds :
          (taskId \notin Ids(tasks) /\ toggleTask(taskId))
             => UNCHANGED <<tasks, completedTasks, schedule>>]_vars

\* C13 (Dashboard half): deleteTask(id) with an id that no listed task and no
\* block has leaves the task list, the completed-id list and the timeline as
\* they were.
C13_DeleteAbsentNoOp ==
    [][\A taskId \in CallIds :
          (taskId \notin Ids(tasks) \cup Ids(schedule) /\ deleteTask(taskId))
             => UNCHANGED <<tasks, completedTasks, schedule, uncaught>>]_vars

\* C11 (Dashboard half): toggleTask and deleteTask change the task list in the
\* step of the user action.
C11_DashboardOptimistic ==
    [][\A taskId \in Ids(tasks) :
          /\ toggleTask(taskId) =>
                Find(tasks', taskId).completed = ~Find(tasks, taskId).completed
          /\ deleteTask(taskId) => taskId \notin Ids(tasks')]_vars

-----------------------------------------------------------------------------
(* Specification SpecInput: the TaskInput page against the backend *)

\* what the user may have typed as the title: 0 is the empty text, -1 a text of
\* blanks only, a positive number a text with something in it
DraftTitles == {-1, 0, 7}

DraftPriorities == {"medium", "high"}

\* the slider's default
DraftDurations == {60}

Drafts == [title : DraftTitles, duration : DraftDurations, priority : DraftPriorities]

\* newTask.title.trim()
Trim(title) == IF title = -1 THEN 0 ELSE title

\* Date.now() at tick c
LocalIdBase == 1000

DateNow(c) == LocalIdBase + c

InitInput ==
    /\ DashboardIdle /\ InputIdle /\ FlowIdle("tasks")
    /\ tasks = <<>> /\ schedule = <<>>
    /\ srvTasks = <<>>

\* addTask up to its await; nothing happens on a blank title or while loading
addTask(draft) ==
    /\ (nextId - 1) + clock < MaxAdds
    /\ IF Trim(draft.title) # 0 /\ ~isLoading
       THEN /\ isLoading' = TRUE
            /\ addReq' = Some([tasks |-> inputTasks, newTask |-> draft])
            /\ addOverlapped' = (removeReqs # {})
            /\ addOutcome' = "sent"
       ELSE /\ UNCHANGED <<isLoading, addReq, addOverlapped>>
            /\ addOutcome' = IF Trim(draft.title) = 0 THEN "rejected" ELSE "busy"
    /\ UNCHANGED <<inputTasks, removeReqs, nextId, clock, removed, srvTasks>>
    /\ UNCHANGED <<tasks, schedule>>
    /\ UNCHANGED <<completedTasks, isRegenerating, wellnessTips, mounted, fetchPending,
                   regen, toggles, deletes, checkinCalls, deleted, userId, lsUserTasks,
                   lsWellnessTips, uncaught>>
    /\ UNCHANGED flowVars

PrependTask(list, t) == <<t>> \o list

\* [...tasks, t]
AppendTask(list, t) == Append(list, t)

\* addTask, api.createTask resolved: the saved task is appended to the captured list
CreateTaskOk ==
    /\ addReq # Absent
    /\ LET newTask == addReq[1].newTask
           savedTask == [id |-> nextId, title |-> newTask.title,
                         priority |-> newTask.priority,
                         duration |-> newTask.duration \div 15, status |-> "pending"]
       IN  /\ srvTasks' = Append(srvTasks, savedTask)
           /\ inputTasks' = AppendTask(addReq[1].tasks,
                                       [id |-> savedTask.id, title |-> savedTask.title,
                                        priority |-> savedTask.priority,
                                        duration |-> newTask.duration,
                                        status |-> savedTask.status, completed |-> FALSE])
    /\ nextId' = nextId + 1
    /\ isLoading' = FALSE
    /\ addReq' = Absent
    /\ addOverlapped' = FALSE
    /\ UNCHANGED <<removeReqs, clock, removed, addOutcome>>
    /\ UNCHANGED <<tasks, schedule>>
    /\ UNCHANGED <<completedTasks, isRegenerating, wellnessTips, mounted, fetchPending,
                   regen, toggles, deletes, checkinCalls, deleted, userId, lsUserTasks,
                   lsWellnessTips, uncaught>>
    /\ UNCHANGED flowVars

\* addTask, api.createTask rejected: the draft is kept with id Date.now()
CreateTaskFail ==
    /\ addReq # Absent
    /\ LET newTask == addReq[1].newTask
       IN  inputTasks' = AppendTask(addReq[1].tasks,
                                    [id |-> DateNow(clock), title |-> newTask.title,
                                     priority |-> newTask.priority,
                                     duration |-> newTask.duration,
                                     status |-> None, completed |-> FALSE])
    /\ clock' = clock + 1
    /\ isLoading' = FALSE
    /\ addReq' = Absent
    /\ addOverlapped' = FALSE
    /\ UNCHANGED <<removeReqs, nextId, removed, addOutcome, srvTasks>>
    /\ UNCHANGED <<tasks, schedule>>
    /\ UNCHANGED <<completedTasks, isRegenerating, wellnessTips, mounted, fetchPending,
                   regen, toggles, deletes, checkinCalls, deleted, userId, lsUserTasks,
                   lsWellnessTips, uncaught>>
    /\ UNCHANGED flowVars

\* removeTask(id) up to its await: nothing but the request
removeTask(id) ==
    /\ id \in Ids(inputTasks)
    /\ Cardinality(removeReqs) < MaxRemoves
    /\ removeReqs' = removeReqs \cup {[id |-> id, tasks |-> inputTasks]}
    /\ addOverlapped' = (addOverlapped \/ addReq # Absent)
    /\ UNCHANGED <<inputTasks, isLoading, addReq, nextId, clock, removed, addOutcome,
                   srvTasks>>
    /\ UNCHANGED <<tasks, schedule>>
    /\ UNCHANGED <<completedTasks, isRegenerating, wellnessTips, mounted, fetchPending,
                   regen, toggles, deletes, checkinCalls, deleted, userId, lsUserTasks,
                   lsWellnessTips, uncaught>>
    /\ UNCHANGED flowVars

\* removeTask, api.deleteTask settled (ok: the backend removed the task): the
\* captured list without the id becomes the list
RemoveTaskSettled(req, ok) ==
    /\ req \in removeReqs
    /\ srvTasks' = IF ok THEN SrvDelete(srvTasks, req.id) ELSE srvTasks
    /\ inputTasks' = SelectSeqBy(req.tasks, {t \in Range(req.tasks) : t.id # req.id})
    /\ removed' = removed \cup {req.id}
    /\ removeReqs' = removeReqs \ {req}
    /\ UNCHANGED <<isLoading, addReq, nextId, clock, addOverlapped, addOutcome>>
    /\ UNCHANGED <<tasks, schedule>>
    /\ UNCHANGED <<completedTasks, isRegenerating, wellnessTips, mounted, fetchPending,
                   regen, toggles, deletes, checkinCalls, deleted, userId, lsUserTasks,
                   lsWellnessTips, uncaught>>
    /\ UNCHANGED flowVars

NextInput ==
    \/ \E draft \in Drafts : addTask(draft)
    \/ CreateTaskOk
    \/ CreateTaskFail
    \/ \E id \in Ids(inputTasks) : removeTask(id)
    \/ \E req \in removeReqs, ok \in BOOLEAN : RemoveTaskSettled(req, ok)

SpecInput == InitInput /\ [][NextInput]_vars

-----------------------------------------------------------------------------
(* Specification SpecAdd: addTask as an operation on any draft *)

\* durations a draft handed to addTask may carry; the page's slider yields
\* 15..240 only, and addTask itself reads newTask.duration[0] without a test
AnyDurations == DraftDurations \cup {0, -15}

AnyDrafts == [title : DraftTitles, duration : AnyDurations, priority : DraftPriorities]

NextAdd ==
    \/ \E draft \in AnyDrafts : addTask(draft)
    \/ CreateTaskOk
    \/ CreateTaskFail

SpecAdd == InitInput /\ [][NextAdd]_vars

\* C5: a task that has been removed from the task-entry list never reappears
\* in it, and no task appears in it twice.
C5_NoResurrectionNoDuplicate ==
    /\ \A id \in removed : id \notin Ids(inputTasks)
    /\ \A i, j \in DOMAIN inputTasks : inputTasks[i].id = inputTasks[j].id => i = j

\* the half of C5 that the code keeps: no id appears twice
C5_NoDuplicate ==
    \A i, j \in DOMAIN inputTasks : inputTasks[i].id = inputTasks[j].id => i = j

\* a draft that task creation must refuse: the title is empty (0) or blanks
\* only (-1), or the duration is not positive
InvalidDraft(draft) == draft.title \in {-1, 0} \/ draft.duration <= 0

\* C11 (task-entry half): addTask and removeTask change the local task list in
\* the step of the user action, before the remote request has completed: a
\* valid addTask call lengthens the list by one, and a removeTask(id) call
\* leaves the list without id.
C11_LocalChangeInSameStep ==
    [][/\ \A draft \in Drafts :
             (addTask(draft) /\ addOutcome' = "sent" /\ addReq = Absent)
                => Len(inputTasks') = Len(inputTasks) + 1
       /\ \A id \in Ids(inputTasks) :
             (removeTask(id) /\ removeReqs' # removeReqs) => id \notin Ids(inputTasks')]_vars

\* C13 (task-entry half): a removeTask(id) call that finds id already gone from
\* the list (a second call with the same id) completes without changing the list.
C13_RemoveIdempotent ==
    [][\A req \in removeReqs, ok \in BOOLEAN :
          (req.id \notin Ids(inputTasks) /\ RemoveTaskSettled(req, ok))
             => inputTasks' = inputTasks]_vars

C14_BlankTitleRejected ==
    [][\A draft \in AnyDrafts :
          (draft.title \in {-1, 0} /\ addTask(draft))
             => /\ addOutcome' = "rejected"
                /\ UNCHANGED <<inputTasks, addReq, isLoading, srvTasks, nextId>>]_vars

\* the task a completed addTask has put in the list
NewTaskOf(draft, id) ==
    [id |-> id, title |-> draft.title, priority |-> draft.priority,
     duration |-> draft.duration]

\* the fields of a listed task that come from its draft
DraftFields(t) ==
    [id |-> t.id, title |-> t.title, priority |-> t.priority, duration |-> t.duration]

\* C15: an addTask during which no other task operation was in flight ends,
\* whether the remote create succeeded or failed, with exactly one new task
\* after the earlier tasks, which are unchanged and in the same order; after a
\* remote failure the new task's id is a locally generated one (Date.now(),
\* which no listed task has).
C15_AddAppendsOne ==
    [][(addReq # Absent /\ addReq' = Absent /\ ~addOverlapped) =>
          /\ Len(inputTasks') = Len(inputTasks) + 1
          /\ SubSeq(inputTasks', 1, Len(inputTasks)) = inputTasks
          /\ \E id \in {nextId, DateNow(clock)} :
                /\ DraftFields(inputTasks'[Len(inputTasks')])
                      = NewTaskOf(addReq[1].newTask, id)
                /\ id \notin Ids(inputTasks)
          /\ CreateTaskFail => inputTasks'[Len(inputTasks')].id = DateNow(clock)
          /\ CreateTaskOk => inputTasks'[Len(inputTasks')].id = nextId]_vars

\* a task saved by the backend, then one kept locally after a failed create,
\* with no removeTask ever called
C15_Witness ==
    /\ addReq = Absent /\ removeReqs = {} /\ removed = {}
    /\ Len(inputTasks) = 2
    /\ inputTasks[1].id = 1 /\ inputTasks[2].id = DateNow(0)
    /\ Len(srvTasks) = 1

-----------------------------------------------------------------------------
(* Specification SpecSched: the Local Scheduler applied to one task list *)

InitSched ==
    /\ DashboardIdle /\ InputIdle /\ FlowIdle("dashboard")
    /\ srvTasks = <<>>
    /\ schedule = <<>>
    /\ \E n \in 0..MaxLen : tasks \in TaskLists(n, SchedDurations, {"pending"})

\* generateLocalSchedule(tasks): the sort is in place, so the argument array is
\* left sorted, and the blocks go to setSchedule
LocalSchedulerStep ==
    /\ schedule = <<>>
    /\ schedule' = generateLocalSchedule(tasks)
    /\ tasks' = sortByPriority(tasks)
    /\ UNCHANGED <<completedTasks, isRegenerating, wellnessTips, mounted, fetchPending,
                   regen, toggles, deletes, checkinCalls, deleted, srvTasks, userId,
                   lsUserTasks, lsWellnessTips>>
    /\ UNCHANGED inputVars /\ UNCHANGED flowVars /\ UNCHANGED uncaught

NextSched == LocalSchedulerStep

SpecSched == InitSched /\ [][NextSched]_vars

-----------------------------------------------------------------------------
(* Claims about the Local Scheduler, checked under SpecSched *)

\* the scheduler has run on a non-empty list
Scheduled == schedule # <<>>

\* C1: the blocks are ordered by priority rank descending (high=3, medium=2,
\* low=1), and two tasks of equal priority keep their input order (ids are the
\* input positions); every input task has its block.
C1_StablePriorityOrder ==
    Scheduled =>
        /\ \A i \in DOMAIN schedule : \E k \in DOMAIN schedule : schedule[k].id = i
        /\ \A i, j \in DOMAIN schedule :
              i < j =>
                /\ priorityOrder(schedule[i].priority) >= priorityOrder(schedule[j].priority)
                /\ schedule[i].priority = schedule[j].priority
                      => schedule[i].id < schedule[j].id

\* the spec's example [A(high), B(medium), C(high)] gives [A, C, B]
C1_Witness ==
    /\ Scheduled
    /\ Len(schedule) = 3
    /\ <<schedule[1].id, schedule[2].id, schedule[3].id>> = <<1, 3, 2>>
    /\ <<schedule[1].priority, schedule[2].priority, schedule[3].priority>>
          = <<"high", "high", "medium">>

\* a label that is a time of the 12-hour clock
ValidLabel(l) ==
    /\ l.hour \in 1..12
    /\ l.minute \in 0..59
    /\ l.period \in {"AM", "PM"}

\* the minute of the day a valid label names (12:00 AM is 0, 12:00 PM is 720)
ClockMinutes(l) == ((l.hour % 12) + (IF l.period = "PM" THEN 12 ELSE 0)) * 60 + l.minute

\* label l2 is the clock time d minutes after label l1
LaterBy(l1, d, l2) ==
    /\ ValidLabel(l1) /\ ValidLabel(l2)
    /\ ClockMinutes(l2) = (ClockMinutes(l1) + d) % 1440

\* C2: the first block starts at 09:00, every later block starts when the
\* previous one ends, and every block ends at its start plus its task's
\* duration (read for the blocks whose task has a duration).
C2_BackToBack ==
    Scheduled =>
        /\ schedule[1].startTime = Label(9, 0, "AM")
        /\ \A i \in 2..Len(schedule) : schedule[i].startTime = schedule[i-1].endTime
        /\ \A i \in DOMAIN schedule :
              schedule[i].duration > 0 =>
                 LaterBy(schedule[i].startTime, schedule[i].duration, schedule[i].endTime)

\* the minutes of work in a task list, as the scheduler counts them
RECURSIVE TotalMinutes(_)
TotalMinutes(s) == IF s = <<>> THEN 0 ELSE durationMinutes(Head(s)) + TotalMinutes(Tail(s))

\* C2 holds of every list whose last block ends before 24:00
C2_BeforeMidnight ==
    (startHour * 60 + TotalMinutes(tasks) < 1440) => C2_BackToBack

\* the task list with every missing duration written out as 60 minutes
WithDefaults(ts) ==
    [i \in DOMAIN ts |->
        IF ts[i].duration = 0 THEN [ts[i] EXCEPT !.duration = 60] ELSE ts[i]]

\* the start and end labels of a timeline, block by block
Times(s) == [k \in DOMAIN s |-> <<s[k].id, s[k].startTime, s[k].endTime>>]

\* C17: a task whose duration is missing (or zero) is placed as if it lasted
\* 60 minutes: the timeline has the same blocks at the same times as the
\* timeline of the same list with 60 written for each missing duration, and
\* the block of such a task that ends before 24:00 ends one hour after it
\* starts (tasks is the list in the order it was placed).
C17_MissingDurationIsSixty ==
    Scheduled =>
        /\ Times(schedule) = Times(generateLocalSchedule(WithDefaults(tasks)))
        /\ \A k \in DOMAIN schedule :
              (schedule[k].duration = 0
                 /\ startHour * 60 + TotalMinutes(SubSeq(tasks, 1, k)) < 1440) =>
                 LaterBy(schedule[k].startTime, 60, schedule[k].endTime)

\* a task without duration first, then a 30-minute task: 9:00-10:00, 10:00-10:30
C17_Witness ==
    /\ Len(schedule) = 2
    /\ schedule[1].duration = 0 /\ schedule[2].duration = 30
    /\ schedule[1].startTime = Label(9, 0, "AM") /\ schedule[1].endTime = Label(10, 0, "AM")
    /\ schedule[2].startTime = Label(10, 0, "AM") /\ schedule[2].endTime = Label(10, 30, "AM")

\* C18: the timeline has exactly one block for every input task and no other
\* block, each block carrying its task's fields; the empty list gives the
\* empty timeline.
C18_OneBlockPerTask ==
    /\ Len(generateLocalSchedule(tasks)) = Len(tasks)
    /\ tasks = <<>> => generateLocalSchedule(tasks) = <<>> /\ schedule = <<>>
    /\ Scheduled =>
          /\ Len(schedule) = Len(tasks)
          /\ \A t \in Range(tasks) :
                Cardinality({k \in DOMAIN schedule : schedule[k].id = t.id}) = 1
          /\ \A k \in DOMAIN schedule :
                \E t \in Range(tasks) :
                   /\ schedule[k].id = t.id /\ schedule[k].title = t.title
                   /\ schedule[k].priority = t.priority
                   /\ schedule[k].duration = t.duration

\* four tasks, one of them without duration, and their four blocks
C18_Witness ==
    /\ Len(tasks) = 4 /\ Len(schedule) = 4
    /\ Ids(schedule) = 1..4
    /\ \E k \in DOMAIN schedule : schedule[k].duration = 0

-----------------------------------------------------------------------------
(* Claims about the Dashboard, checked under Spec *)

Titles(s) == {s[i].title : i \in DOMAIN s}

NotCompleted(ts) == SelectSeqBy(ts, {t \in Range(ts) : ~t.completed})

\* C3: when regenerateSchedule's remote call has failed, the timeline is the
\* Local Scheduler's output over the tasks that are incomplete at that moment,
\* also when tasks were toggled or deleted while the request was in flight.
C3_FallbackOverCurrentTasks ==
    [][(regen # Absent /\ regen' = Absent /\ RegenerateFail) =>
          schedule' = generateLocalSchedule(NotCompleted(tasks'))]_vars

\* C4: the timeline never holds a block that represents a deleted task.
C4_NoBlockOfDeletedTask ==
    \A k \in DOMAIN schedule : schedule[k].title \notin deleted

\* C6: every task's completed flag is true exactly when its status field is
\* 'completed'.
C6_CompletedIffStatus ==
    \A i \in DOMAIN tasks : tasks[i].completed <=> (tasks[i].status = "completed")

\* C7: with a logged-in user, a toggleTask that moves a task from pending to
\* completed issues exactly one streak check-in call, and one that moves it
\* from completed to pending issues none.
C7_OneCheckinPerCompletion ==
    [][(userId /\ Len(toggles') > Len(toggles)) =>
       \A taskId \in Ids(tasks) :
          toggleTask(taskId) =>
             checkinCalls' = checkinCalls +
                (IF Find(tasks, taskId).completed THEN 0 ELSE 1)]_vars

\* one task, never deleted, has gone pending -> completed -> pending -> completed:
\* two check-in calls
C7_Witness ==
    /\ userId /\ mounted
    /\ Len(srvTasks) = 1 /\ srvTasks[1].status = "pending"
    /\ Len(tasks) = 1 /\ tasks[1].completed
    /\ checkinCalls = 2

\* tasks whose completed flag is true
CompletedCount == Cardinality({i \in DOMAIN tasks : tasks[i].completed})

\* p is 100 * c / n rounded to the nearest integer, halves up
IsRounded(p, c, n) == 2 * n * p <= 200 * c + n /\ 200 * c + n < 2 * n * (p + 1)

C9_LoadFallbackSkipsCompleted ==
    [][(fetchPending /\ ~fetchPending') =>
       \A scheduleData \in GetScheduleResponses(srvTasks) :
          (FetchDataOk(scheduleData) /\ Len(scheduleData) = 0) =>
             schedule' = generateLocalSchedule(NotCompleted(tasks'))]_vars

\* the clock label of an "HH:MM" time of day
ClockLabel(time) ==
    Label(IF time.hh % 12 = 0 THEN 12 ELSE time.hh % 12, time.mm,
          IF time.hh < 12 THEN "AM" ELSE "PM")

\* C10: after a load in which the backend returned a schedule with at least one
\* entry, the timeline has exactly one block per remote entry, in the remote
\* order, and no block computed by the Local Scheduler.
C10_RemoteScheduleAsIs ==
    [][(fetchPending /\ ~fetchPending') =>
       \A scheduleData \in GetScheduleResponses(srvTasks) :
          (FetchDataOk(scheduleData) /\ Len(scheduleData) > 0) =>
             /\ Len(schedule') = Len(scheduleData)
             /\ \A k \in DOMAIN scheduleData :
                   /\ schedule'[k].id = scheduleData[k].id
                   /\ schedule'[k].title = scheduleData[k].task_title
                   /\ schedule'[k].startTime = ClockLabel(scheduleData[k].start_time)
                   /\ schedule'[k].endTime = ClockLabel(scheduleData[k].end_time)
             /\ \A k \in DOMAIN schedule' :
                   schedule'[k] \notin Range(generateLocalSchedule(tasks'))]_vars

\* a loaded remote schedule of two entries, listed against the task order
C10_Witness ==
    /\ mounted /\ ~fetchPending
    /\ Len(tasks) = 2 /\ Len(schedule) = 2
    /\ schedule[1].priority = None /\ schedule[2].priority = None
    /\ schedule[1].id = tasks[2].id /\ schedule[2].id = tasks[1].id
    /\ schedule[1].title = tasks[2].title /\ schedule[2].title = tasks[1].title

LocalTimeline(s) ==
    /\ \A k \in DOMAIN s : s[k].priority \in Priorities
    /\ \A k \in 2..Len(s) :
          /\ priorityOrder(s[k-1].priority) >= priorityOrder(s[k].priority)
          /\ s[k].startTime = s[k-1].endTime
    /\ s # <<>> => s[1].startTime = Label(startHour, 0, "AM")

\* C16: the loading state lasts exactly as long as the regenerate request is in
\* flight: when the remote call settles, by success or by failure,
\* isRegenerating is false again, and on failure the timeline has been replaced
\* by a Local Scheduler timeline of tasks that were not completed.
C16_RegenerateLeavesLoading ==
    [][/\ isRegenerating' <=> (regen' # Absent)
       /\ (regen # Absent /\ regen' = Absent) => ~isRegenerating'
       /\ (regen # Absent /\ regen' = Absent /\ RegenerateFail) =>
             /\ LocalTimeline(schedule')
             /\ \A k \in DOMAIN schedule' : ~schedule'[k].completed
             /\ Ids(schedule') = Ids(NotCompleted(regen[1]))]_vars

\* a failed regenerate has replaced the timeline: the page is idle again, and
\* of two loaded tasks, neither deleted, only the pending one has a block, a
\* local one (a load gives a remote block, or a local block to each task)
C16_Witness ==
    /\ mounted /\ ~fetchPending /\ ~isRegenerating /\ regen = Absent
    /\ Len(tasks) = 2 /\ deleted = {}
    /\ tasks[1].completed /\ ~tasks[2].completed
    /\ Len(schedule) = 1 /\ LocalTimeline(schedule)
    /\ schedule[1].id = tasks[2].id

\* C19: a failed streak check-in is swallowed: the toggle's local change stays,
\* its remote status update is sent next, and no error leaves toggleTask; a
\* failed remote status update does not undo the local change either.
C19_ToggleFailuresSwallowed ==
    [][\A i \in DOMAIN toggles :
          /\ (toggles[i].phase = "checkin" /\ CheckinSettled(i, FALSE)) =>
                /\ Len(toggles') = Len(toggles)
                /\ toggles'[i] = [id |-> toggles[i].id, newStatus |-> toggles[i].newStatus,
                                   phase |-> "update"]
                /\ UNCHANGED <<tasks, completedTasks, uncaught>>
          /\ (toggles[i].phase = "update" /\ UpdateStatusSettled(i, FALSE)) =>
                UNCHANGED <<tasks, completedTasks, uncaught, srvTasks>>]_vars

\* after the check-in of a completing toggle has settled (the state is the same
\* whether it resolved or was rejected): the task is completed locally, one
\* check-in was issued and the status update to 'completed' is in flight
C19_Witness ==
    /\ mounted /\ userId /\ checkinCalls = 1 /\ uncaught = {}
    /\ Len(toggles) = 1 /\ toggles[1].phase = "update"
    /\ toggles[1].newStatus = "completed"
    /\ \E i \in DOMAIN tasks : tasks[i].id = toggles[1].id /\ tasks[i].completed
    /\ \E i \in DOMAIN srvTasks :
          srvTasks[i].id = toggles[1].id /\ srvTasks[i].status = "pending"

\* C20: the timeline changes only when a load completes, a task is deleted or
\* a regenerate request settles; toggleTask, and the settling of its requests,
\* leave every block where it is, with the same start and end times.
C20_ToggleKeepsTimeline ==
    [][/\ schedule' # schedule =>
             \/ fetchPending /\ ~fetchPending'
             \/ deleted' # deleted
             \/ regen # Absent /\ regen' = Absent
       /\ (toggles' # toggles /\ Len(toggles') > Len(toggles)) =>
             \A taskId \in Ids(tasks) : toggleTask(taskId) => schedule' = schedule]_vars

\* a task completed by a toggle still has its block, from 09:00
C20_Witness ==
    /\ mounted /\ deleted = {} /\ Len(tasks) = 1 /\ Len(schedule) = 1
    /\ tasks[1].completed /\ tasks[1].status = "pending"
    /\ schedule[1].id = tasks[1].id /\ ~schedule[1].completed
    /\ schedule[1].startTime = Label(startHour, 0, "AM")

\* every block of s was computed by the Local Scheduler (a remote block carries
\* no priority)
LocalBlocks(s) == s # <<>> /\ \A k \in DOMAIN s : s[k].priority \in Priorities

\* C21: a timeline of Local Scheduler blocks is gap-free after every change of
\* the task list, deleteTask included: its first block starts at 09:00 and
\* every later block starts when the block before it ends.
C21_LocalTimelineGapFree ==
    LocalBlocks(schedule) => LocalTimeline(schedule)

\* C22: the load leaves the Dashboard's task list in the order of the backend's
\* response, also when the Local Scheduler computed the fallback timeline from
\* it.
C22_LoadKeepsBackendOrder ==
    [][(fetchPending /\ ~fetchPending') =>
       \A scheduleData \in GetScheduleResponses(srvTasks) :
          FetchDataOk(scheduleData) => tasks' = transformTasks(srvTasks)]_vars

\* C27: deleteTask(id) takes from the timeline only the block that represents
\* the deleted task: every block with another task's title is still in the
\* timeline afterwards, with the same start and end times.
C27_DeleteRemovesOnlyOwnBlock ==
    [][(deleted' # deleted) =>
       \A taskId \in Ids(tasks) :
          deleteTask(taskId) =>
             \A k \in DOMAIN schedule :
                schedule[k].title # Find(tasks, taskId).title =>
                   \E j \in DOMAIN schedule' :
                      /\ schedule'[j].title = schedule[k].title
                      /\ schedule'[j].startTime = schedule[k].startTime
                      /\ schedule'[j].endTime = schedule[k].endTime]_vars

\* C28: the completed-id list has no duplicates, holds only ids of listed
\* tasks, and holds a listed task's id exactly when the task's completed flag
\* is set; the completion percentage lies between 0 and 100.
C28_CompletedListConsistent ==
    /\ Injective(completedTasks)
    /\ Range(completedTasks) \subseteq Ids(tasks)
    /\ \A i \in DOMAIN tasks : tasks[i].completed <=> tasks[i].id \in Range(completedTasks)
    /\ completionPercentage \in 0..100

\* after a toggle and a delete: of two loaded tasks the first, completed by the
\* toggle, is left and is the one listed id; the percentage is 100
C28_Witness ==
    /\ mounted /\ Len(srvTasks) = 2 /\ deleted = {2}
    /\ Len(tasks) = 1 /\ tasks[1].id = 1
    /\ tasks[1].completed /\ tasks[1].status = "pending"
    /\ completedTasks = <<1>> /\ completionPercentage = 100

\* C29: when the regenerate request resolves with no schedule entry, the
\* timeline, the wellness tips and the stored tips stay as the request found
\* them, whatever review came with it, and isRegenerating is false again.
C29_EmptyRegenerateChangesNothing ==
    [][(regen # Absent /\ regen' = Absent) =>
       \A review \in Reviews :
          RegenerateOk(<<>>, review) =>
             /\ UNCHANGED <<schedule, wellnessTips, lsWellnessTips>>
             /\ ~isRegenerating']_vars

\* a regenerate request in flight that can only resolve without entries (the
\* backend has no task left), sent from a page that shows a timeline and tips:
\* the settled state is this one with the request gone
C29_Witness ==
    /\ mounted /\ regen # Absent /\ isRegenerating
    /\ srvTasks = <<>> /\ deletes = {}
    /\ schedule # <<>> /\ wellnessTips # <<>>

-----------------------------------------------------------------------------
(* Further claims about the TaskInput page, checked under SpecInput *)

\* ids of the tasks whose addTask has completed: the backend's ids handed out
\* so far and the Date.now() ids of the failed creates
AddedIds == (1..(nextId - 1)) \cup {DateNow(c) : c \in 0..(clock - 1)}

\* ids removeTask has been called for
RemoveCalledIds == removed \cup {req.id : req \in removeReqs}

\* C24: a task whose addTask has completed is in the task-entry list until
\* removeTask is called for its id, whatever other request completes meanwhile.
C24_AddedStaysUntilRemoved ==
    \A id \in AddedIds : id \in Ids(inputTasks) \/ id \in RemoveCalledIds

-----------------------------------------------------------------------------
(* Further claims about the Local Scheduler, checked under SpecSched *)

\* the 12-hour clock label of minute m counted from 00:00 of the first day
ExpectedLabel(m) == ClockLabel(HHMM((m \div 60) % 24, m % 60))

\* C30: every start and end label of the timeline is a time of the 12-hour
\* clock and is the clock time of its minute offset: hour 1..12, minute 0..59,
\* AM before noon and PM from noon on, also past midnight (tasks is the list
\* in the order it was placed).
C30_LabelsAreClockTimes ==
    Scheduled =>
        \A k \in DOMAIN schedule :
           LET startMins == startHour * 60 + TotalMinutes(SubSeq(tasks, 1, k - 1))
               endMins == startMins + durationMinutes(tasks[k])
           IN  /\ ValidLabel(schedule[k].startTime) /\ ValidLabel(schedule[k].endTime)
               /\ schedule[k].startTime = ExpectedLabel(startMins)
               /\ schedule[k].endTime = ExpectedLabel(endMins)

\* C30 holds of every list whose last block ends before 24:00
C30_BeforeMidnight ==
    (startHour * 60 + TotalMinutes(tasks) < 1440) => C30_LabelsAreClockTimes

-----------------------------------------------------------------------------
(* Specification SpecToggle: overlapping toggleTask calls, every request of   *)
(* which succeeds                                                             *)

NextToggle ==
    \/ \E scheduleData \in GetScheduleResponses(srvTasks) : FetchDataOk(scheduleData)
    \/ \E taskId \in Ids(tasks) : Len(toggles) < MaxToggles /\ toggleTask(taskId)
    \/ \E i \in DOMAIN toggles : CheckinSettled(i, TRUE)
    \/ \E i \in DOMAIN toggles : UpdateStatusSettled(i, TRUE)

SpecToggle == Init /\ [][NextToggle]_vars

\* the status the backend holds for the task with this id
SrvStatus(id) == Find(srvTasks, id).status

\* C23: once every request issued by toggleTask has completed, the status last
\* written to the backend for a task is 'completed' exactly when the task's
\* local completed flag is set.
C23_BackendMatchesLocal ==
    (mounted /\ ~fetchPending /\ toggles = <<>>) =>
        \A i \in DOMAIN tasks :
           tasks[i].completed <=> (SrvStatus(tasks[i].id) = "completed")

-----------------------------------------------------------------------------
(* Specification SpecFlow: from the TaskInput page to the Dashboard.  The     *)
(* user adds tasks, presses 'Generate AI Schedule' when no add is in flight   *)
(* and waits for the navigation; the Dashboard then loads.                    *)

\* TaskInput generateSchedule up to its await (the button is disabled without
\* tasks and while isGenerating)
generateSchedule ==
    /\ page = "tasks"
    /\ Len(inputTasks) > 0
    /\ IF genReq = Absent THEN TRUE ELSE genReq[1].settled
    /\ genReq' = Some([tasks |-> inputTasks, settled |-> FALSE])
    /\ UNCHANGED <<page, reset>>
    /\ UNCHANGED inputVars /\ UNCHANGED <<tasks, schedule, srvTasks>>
    /\ UNCHANGED <<completedTasks, isRegenerating, wellnessTips, mounted, fetchPending,
                   regen, toggles, deletes, checkinCalls, deleted, userId, lsUserTasks,
                   lsWellnessTips, uncaught>>

\* generateSchedule, api.generateSchedule() settled.  ok: a non-empty review is
\* stored as 'wellnessTips'; else the captured task list is stored as
\* 'userTasks'.  Both branches navigate to /dashboard: TaskInput is unmounted
\* and the Dashboard is mounted with its initial state and starts fetchData.
GenerateSettled(ok, review) ==
    /\ page = "tasks"
    /\ genReq # Absent /\ ~genReq[1].settled
    /\ IF ok
       THEN /\ lsWellnessTips' = IF Len(review) > 0 THEN Some(review) ELSE lsWellnessTips
            /\ UNCHANGED lsUserTasks
       ELSE /\ lsUserTasks' = Some(genReq[1].tasks)
            /\ UNCHANGED lsWellnessTips
    /\ genReq' = Some([genReq[1] EXCEPT !.settled = TRUE])
    /\ page' = "dashboard"
    /\ inputTasks' = <<>> /\ isLoading' = FALSE
    /\ tasks' = <<>> /\ schedule' = <<>> /\ completedTasks' = <<>>
    /\ isRegenerating' = FALSE /\ wellnessTips' = <<>>
    /\ mounted' = TRUE /\ fetchPending' = TRUE
    /\ UNCHANGED <<addReq, removeReqs, nextId, clock, removed, addOverlapped, addOutcome>>
    /\ UNCHANGED <<regen, toggles, deletes, checkinCalls, deleted, srvTasks, userId,
                   uncaught, reset>>

NextFlow ==
    \/ \E draft \in Drafts : page = "tasks" /\ genReq = Absent /\ addTask(draft)
    \/ page = "tasks" /\ CreateTaskOk
    \/ page = "tasks" /\ CreateTaskFail
    \/ addReq = Absent /\ generateSchedule
    \/ \E ok \in BOOLEAN, review \in Reviews : GenerateSettled(ok, review)
    \/ \E scheduleData \in GetScheduleResponses(srvTasks) : FetchDataOk(scheduleData)
    \/ FetchDataFail

SpecFlow == InitInput /\ [][NextFlow]_vars

\* C26: when the Dashboard has loaded after 'Generate AI Schedule', it is shown
\* and every task that was in the task-entry list at the press is in its task
\* list, whether the generate call and the load succeeded or failed.
C26_PressedTasksOnDashboard ==
    (genReq # Absent /\ genReq[1].settled /\ ~fetchPending) =>
        /\ mounted
        /\ Ids(genReq[1].tasks) \subseteq Ids(tasks)

\* C26 for the tasks the backend has: after a load that succeeded, every task
\* of the task-entry list that was created remotely is in the task list
C26_RemoteTasksOnDashboard ==
    (genReq # Absent /\ genReq[1].settled /\ ~fetchPending /\ mounted
       /\ lsUserTasks = Absent) =>
        \A id \in Ids(genReq[1].tasks) : id < LocalIdBase => id \in Ids(tasks)

-----------------------------------------------------------------------------
(* Specification SpecReset: GoalSetup's clearOldTasks, started on mount, and  *)
(* the user who continues to the TaskInput page and adds tasks.  Nothing      *)
(* stops clearOldTasks when GoalSetup is unmounted.  A response shows the     *)
(* backend as it is when the request is served, which is any moment of the   *)
(* request's flight.                                                          *)

\* GoalSetup mounted: the useEffect has removed 'userTasks', 'wellnessTips' and
\* 'userSetup' and awaits api.getTasks(); the backend holds the old tasks
InitReset ==
    /\ DashboardIdle
    /\ tasks = <<>> /\ schedule = <<>>
    /\ inputTasks = <<>> /\ isLoading = FALSE /\ addReq = Absent /\ removeReqs = {}
    /\ clock = 0 /\ removed = {} /\ addOverlapped = FALSE /\ addOutcome = "none"
    /\ \E n \in 0..MaxTasks : srvTasks \in SrvLists(n)
    /\ nextId = Len(srvTasks) + 1
    /\ page = "goals" /\ genReq = Absent
    /\ reset = [phase |-> "fetching", queue |-> <<>>, before |-> Ids(srvTasks),
                deleted |-> {}]

\* clearOldTasks, api.getTasks() settled.  ok: the loop starts over the tasks of
\* the response; else the outer catch logs the error and the reset is over
ResetFetched(ok) ==
    /\ reset.phase = "fetching"
    /\ reset' = IF ok /\ srvTasks # <<>>
                THEN [reset EXCEPT !.phase = "deleting", !.queue = AllIds(srvTasks)]
                ELSE [reset EXCEPT !.phase = "done"]
    /\ UNCHANGED <<page, genReq>>
    /\ UNCHANGED inputVars /\ UNCHANGED <<tasks, schedule, srvTasks>>
    /\ UNCHANGED <<completedTasks, isRegenerating, wellnessTips, mounted, fetchPending,
                   regen, toggles, deletes, checkinCalls, deleted, userId, lsUserTasks,
                   lsWellnessTips, uncaught>>

\* clearOldTasks, the api.deleteTask(task.id) of the loop settled (ok: the
\* backend removed the task; else the inner catch logs the error): the loop
\* goes on with the next task of the fetched list
ResetDeleteSettled(ok) ==
    /\ reset.phase = "deleting"
    /\ LET id == Head(reset.queue)
           rest == Tail(reset.queue)
       IN  /\ srvTasks' = IF ok THEN SrvDelete(srvTasks, id) ELSE srvTasks
           /\ reset' = [reset EXCEPT
                          !.queue = rest,
                          !.deleted = IF ok THEN reset.deleted \cup {id} ELSE reset.deleted,
                          !.phase = IF rest # <<>> THEN "deleting" ELSE "done"]
    /\ UNCHANGED <<page, genReq>>
    /\ UNCHANGED inputVars /\ UNCHANGED <<tasks, schedule>>
    /\ UNCHANGED <<completedTasks, isRegenerating, wellnessTips, mounted, fetchPending,
                   regen, toggles, deletes, checkinCalls, deleted, userId, lsUserTasks,
                   lsWellnessTips, uncaught>>

\* handleContinue with a role and a goal chosen: navigate('/tasks'); TaskInput
\* is mounted with its initial state
handleContinue ==
    /\ page = "goals"
    /\ page' = "tasks"
    /\ UNCHANGED <<reset, genReq>>
    /\ UNCHANGED inputVars /\ UNCHANGED <<tasks, schedule, srvTasks>>
    /\ UNCHANGED <<completedTasks, isRegenerating, wellnessTips, mounted, fetchPending,
                   regen, toggles, deletes, checkinCalls, deleted, userId, lsUserTasks,
                   lsWellnessTips, uncaught>>

NextReset ==
    \/ \E ok \in BOOLEAN : ResetFetched(ok)
    \/ \E ok \in BOOLEAN : ResetDeleteSettled(ok)
    \/ handleContinue
    \/ \E draft \in Drafts : page = "tasks" /\ addTask(draft)
    \/ page = "tasks" /\ CreateTaskOk
    \/ page = "tasks" /\ CreateTaskFail

SpecReset == InitReset /\ [][NextReset]_vars

\* C25: the reset deletes only tasks the backend held when the reset began,
\* never one created afterwards on the task-entry page; and when the delete of
\* one task fails, the reset goes on to the remaining tasks of its list.
C25_ResetDeletesOnlyOldTasks ==
    [][/\ reset'.deleted \subseteq reset'.before
       /\ (reset.phase = "deleting" /\ ResetDeleteSettled(FALSE)) =>
             /\ reset'.queue = Tail(reset.queue)
             /\ reset'.queue # <<>> => reset'.phase = "deleting"]_vars

\* C25, second half alone: a failed delete does not stop the reset
C25_FailedDeleteGoesOn ==
    [][(reset.phase = "deleting" /\ ResetDeleteSettled(FALSE)) =>
          /\ reset'.queue = Tail(reset.queue)
          /\ reset'.queue # <<>> => reset'.phase = "deleting"]_vars

====
